---- MODULE Spec2Model ----
(***************************************************************************)
(* Model of gradio_app/app.py: the voice-chat front end.                   *)
(*                                                                         *)
(* State: the wall clock, the temp directory's audio artifacts, the file   *)
(* at HISTORY_PATH, the session's history_state, and the position of the   *)
(* one voice_chat call the UI allows in flight.  voice_chat blocks on      *)
(* requests.post for up to REQUEST_TIMEOUT seconds, so it is modelled in   *)
(* two steps, before and after the POST; clear_history is wired to its own *)
(* button and may run while the POST is outstanding.                       *)
(*                                                                         *)
(* Python values: a str s is <<"str", s>> and None is <<"NoneType", "">>;  *)
(* a turn is a 3-element sequence of them, a history a sequence of turns.  *)
(* A text file is a sequence of JSON tokens <<kind, payload>>.             *)
(***************************************************************************)
EXTENDS Integers, Sequences, FiniteSets, TLC

\* ------------------------------------------------------------ bounds
MaxClock == 1
MaxCalls == 2

\* ------------------------------------------------------ Python values
PyStr(s) == <<"str", s>>
PyNone == <<"NoneType", "">>

IsPrefix(s, t) == Len(s) <= Len(t) /\ SubSeq(t, 1, Len(s)) = s
Range(s) == {s[i] : i \in 1..Len(s)}

\* ----------------------------------------------------------- the clock
Pad2(n) == IF n < 10 THEN "0" \o ToString(n) ELSE ToString(n)
\* datetime.now().strftime("%H:%M:%S")
strftime(t) ==
    Pad2((t \div 3600) % 24) \o ":" \o Pad2((t \div 60) % 60) \o ":" \o Pad2(t % 60)
\* f"input_{int(time.time())}.wav" in tempfile.gettempdir()
input_path(t) == "input_" \o ToString(t) \o ".wav"
\* f"tts_output_{int(time.time())}.wav" in tempfile.gettempdir()
output_path(t) == "tts_output_" \o ToString(t) \o ".wav"

\* ---------------------------------------------------------------- JSON
LBR == <<"[", "">>
RBR == <<"]", "">>
COMMA == <<",", "">>
NULL == <<"null", "">>

RECURSIVE JoinTokens(_)
\* the token sequences of parts, separated by commas
JoinTokens(parts) ==
    IF parts = <<>> THEN <<>>
    ELSE IF Len(parts) = 1 THEN parts[1]
    ELSE parts[1] \o <<COMMA>> \o JoinTokens(Tail(parts))

\* json.dump of a str or None
dump_scalar(v) == IF v = PyNone THEN <<NULL>> ELSE <<<<"string", v[2]>>>>
\* json.dump of one turn, a list of three scalars
dump_turn(turn) ==
    <<LBR>> \o JoinTokens([i \in 1..Len(turn) |-> dump_scalar(turn[i])]) \o <<RBR>>
\* json.dump(history, f, ensure_ascii=False, indent=2)
json_dump(history) ==
    <<LBR>> \o JoinTokens([i \in 1..Len(history) |-> dump_turn(history[i])]) \o <<RBR>>

ParseFail == [ok |-> FALSE, val |-> <<>>, pos |-> 0]
Tok(text, i) == IF i <= Len(text) THEN text[i] ELSE <<"EOF", "">>

\* one scalar at position i
parse_scalar(text, i) ==
    LET t == Tok(text, i) IN
    IF t[1] = "string" THEN [ok |-> TRUE, val |-> PyStr(t[2]), pos |-> i + 1]
    ELSE IF t[1] = "null" THEN [ok |-> TRUE, val |-> PyNone, pos |-> i + 1]
    ELSE ParseFail

RECURSIVE parse_scalars(_, _, _)
\* the rest of an array of scalars after its first element: ("," scalar)* "]"
parse_scalars(text, i, acc) ==
    IF Tok(text, i) = RBR THEN [ok |-> TRUE, val |-> acc, pos |-> i + 1]
    ELSE IF Tok(text, i) = COMMA
    THEN LET r == parse_scalar(text, i + 1) IN
         IF r.ok THEN parse_scalars(text, r.pos, Append(acc, r.val)) ELSE ParseFail
    ELSE ParseFail

\* one inner array at position i
parse_turn(text, i) ==
    IF Tok(text, i) # LBR THEN ParseFail
    ELSE IF Tok(text, i + 1) = RBR THEN [ok |-> TRUE, val |-> <<>>, pos |-> i + 2]
    ELSE LET r == parse_scalar(text, i + 1) IN
         IF r.ok THEN parse_scalars(text, r.pos, <<r.val>>) ELSE ParseFail

RECURSIVE parse_turns(_, _, _)
\* the rest of the outer array after its first element: ("," array)* "]"
parse_turns(text, i, acc) ==
    IF Tok(text, i) = RBR THEN [ok |-> TRUE, val |-> acc, pos |-> i + 1]
    ELSE IF Tok(text, i) = COMMA
    THEN LET r == parse_turn(text, i + 1) IN
         IF r.ok THEN parse_turns(text, r.pos, Append(acc, r.val)) ELSE ParseFail
    ELSE ParseFail

\* json.load(f): the outer array, then end of input (else "Extra data")
json_load(text) ==
    LET r == IF Tok(text, 1) # LBR THEN ParseFail
             ELSE IF Tok(text, 2) = RBR THEN [ok |-> TRUE, val |-> <<>>, pos |-> 3]
             ELSE LET f == parse_turn(text, 2) IN
                  IF f.ok THEN parse_turns(text, f.pos, <<f.val>>) ELSE ParseFail
    IN IF r.ok /\ r.pos = Len(text) + 1 THEN r ELSE ParseFail

\* ------------------------------------------------- the history file
NoFile == [exists |-> FALSE, text |-> <<>>]
FileOf(text) == [exists |-> TRUE, text |-> text]

\* load_chat_history without its try/except
load_chat_history_unguarded(file, readable) ==
    IF file.exists
    THEN IF readable /\ json_load(file.text).ok
         THEN [raised |-> FALSE, value |-> json_load(file.text).val]
         ELSE [raised |-> TRUE, value |-> <<>>]
    ELSE [raised |-> FALSE, value |-> <<>>]

\* load_chat_history(); readable = FALSE is open() or read raising OSError
load_chat_history(file, readable) ==
    IF file.exists
    THEN IF readable /\ json_load(file.text).ok
         THEN [raised |-> FALSE, value |-> json_load(file.text).val]
         ELSE [raised |-> FALSE, value |-> <<>>]
    ELSE [raised |-> FALSE, value |-> <<>>]

\* save_chat_history opening the file with mode "a"
save_chat_history_append(file, history, fault) ==
    IF fault = "open" THEN file
    ELSE IF fault = "dump"
    THEN FileOf(file.text \o SubSeq(json_dump(history), 1, Len(json_dump(history)) - 1))
    ELSE FileOf(file.text \o json_dump(history))

\* save_chat_history(history); open(.., "w") truncates, then json.dump writes.
\* fault "open": open raises, the file is as it was; fault "dump": the write
\* stops short and leaves a proper prefix of the text.  Both are logged only.
save_chat_history(file, history, fault) ==
    IF fault = "open" THEN file
    ELSE IF fault = "dump"
    THEN FileOf(SubSeq(json_dump(history), 1, Len(json_dump(history)) - 1))
    ELSE FileOf(json_dump(history))

\* clear_history with the os.remove left out
remove_history_file_kept(file) == file

\* if os.path.exists(HISTORY_PATH): os.remove(HISTORY_PATH)
remove_history_file(file) == IF file.exists THEN NoFile ELSE file

\* ------------------------------------------------------ the messages
MsgNoInput == "Mohon rekam suara terlebih dahulu"
MsgSaveFailure == "Gagal menyimpan file audio"
MsgTimeout == "Waktu permintaan habis. Server membutuhkan waktu terlalu lama untuk merespons."
MsgConnection == "Tidak dapat terhubung ke server. Pastikan server berjalan di http://localhost:8000"
MsgRequestError(e) == "Error: " \o e
MsgEmptyResponse == "Server mengembalikan respons kosong"
MsgOutputInvalid == "File audio respons kosong atau tidak valid"
MsgOutputWriteFailure(e) == "Gagal menyimpan file audio respons: " \o e
MsgServerError(detail) == "Server Error: " \o detail
MsgUnexpected(e) == "Terjadi kesalahan: " \o e
MsgSuccess == "Berhasil mendapatkan respons"
MsgCleared == "Riwayat percakapan telah dihapus"
user_message == "Pesan Suara"
ai_message == "Balasan Suara"

\* ------------------------------------------------- the temp directory
\* files: path -> bytes (as text); an artifact op is <<path, "write" | "remove", data>>
RECURSIVE fs_apply(_, _)
fs_apply(fs, ops) ==
    IF ops = <<>> THEN fs
    ELSE LET o == ops[1]
             next == IF o[2] = "write"
                     THEN [p \in DOMAIN fs \cup {o[1]} |-> IF p = o[1] THEN o[3] ELSE fs[p]]
                     ELSE [p \in DOMAIN fs \ {o[1]} |-> fs[p]]
         IN fs_apply(next, Tail(ops))
\* os.path.exists(path)
path_exists(fs, path) == path \in DOMAIN fs
\* os.path.getsize(path)
getsize(fs, path) == Len(fs[path])
WrittenPaths(ops) == {ops[i][1] : i \in {j \in 1..Len(ops) : ops[j][2] = "write"}}

\* --------------------------------------------------------- voice_chat
\* history + [[error_msg, None, timestamp]] replacing the list
append_turn_replacing(history, turn) == <<turn>>

\* history + [[a, b, timestamp]]
append_turn(history, turn) == Append(history, turn)

error_turn(error_msg, timestamp) == <<PyStr(error_msg), PyNone, PyStr(timestamp)>>
success_turn(timestamp) == <<PyStr(user_message), PyStr(ai_message), PyStr(timestamp)>>

\* the guard of line 41 left out
audio_is_none_unchecked(audio) == FALSE

\* if audio is None
audio_is_none(audio) == audio = "None"

\* if not response.content
content_is_empty(content) == Len(content) = 0

\* the check of line 121 left out
output_invalid_unchecked(fs, path) == FALSE

\* not os.path.exists(output_audio_path) or os.path.getsize(output_audio_path) == 0
output_invalid(fs, path) == ~path_exists(fs, path) \/ getsize(fs, path) = 0

\* response.json() of an error body: the message field, when the body is a JSON
\* object that has one
JsonMessageBody == "{\"message\": \"model gagal\"}"
JsonObjectBody == "{\"detail\": \"x\"}"
response_json(content) ==
    IF content = JsonMessageBody
    THEN [ok |-> TRUE, has_message |-> TRUE, message |-> "model gagal"]
    ELSE IF content = JsonObjectBody
    THEN [ok |-> TRUE, has_message |-> FALSE, message |-> ""]
    ELSE [ok |-> FALSE, has_message |-> FALSE, message |-> ""]

\* lines 141-145: error_content.get('message', f"Kode status: {status}"), and the
\* status text again when the body is not JSON
server_error_detail(status_code, content) ==
    LET fallback == "Kode status: " \o ToString(status_code)
        j == response_json(content)
    IN IF Len(content) = 0 THEN fallback
       ELSE IF j.ok /\ j.has_message THEN j.message
       ELSE fallback

\* what a handler hands back to the UI, with what it did on the way
Result(outcome, audio_out, history, status, ops, posts, saved) ==
    [outcome |-> outcome, audio |-> audio_out, history |-> history, status |-> status,
     ops |-> ops, posts |-> posts, saved |-> saved]

\* voice_chat up to requests.post (lines 41-79).  wfault is what
\* scipy.io.wavfile.write does ("ok", "raise", or "missing": it returns and the
\* file is not there); ofault is open(audio_path, "rb") ("ok" or "raise").
\* outcome "Posted" is the call now waiting on the POST.
voice_chat_begin(audio, history, t, wfault, ofault, e) ==
    LET timestamp == strftime(t)
        audio_path == input_path(t)
    IN IF audio_is_none(audio)
       THEN Result("NoInput", PyNone, history, MsgNoInput, <<>>, 0, FALSE)
       ELSE IF audio = "None" \/ wfault = "raise"
       THEN Result("Unexpected", PyNone,
                   append_turn(history, error_turn(MsgUnexpected(e), timestamp)),
                   MsgUnexpected(e), <<>>, 0, FALSE)
       ELSE IF wfault = "missing"
       THEN Result("SaveFailure", PyNone, history, MsgSaveFailure,
                   <<<<audio_path, "remove", "">>>>, 0, FALSE)
       ELSE IF ofault = "raise"
       THEN Result("TransportError", PyNone,
                   append_turn(history, error_turn(MsgRequestError(e), timestamp)),
                   MsgRequestError(e), <<<<audio_path, "write", audio>>>>, 0, FALSE)
       ELSE Result("Posted", PyNone, history, "", <<<<audio_path, "write", audio>>>>, 1, FALSE)

\* voice_chat from the POST's outcome on (lines 81-153).  net is what
\* requests.post did: [kind |-> "timeout" | "connection" | "error" | "response",
\* status_code, content, e]; wfault is what writing the output file does
\* ("ok", "raise", "short": it ends with zero bytes, "missing": it is not there
\* afterwards).  saved = TRUE is the call of save_chat_history(new_history).
voice_chat_finish(history, timestamp, fs, t, net, wfault, e) ==
    LET Err(outcome, error_msg, ops) ==
            Result(outcome, PyNone, append_turn(history, error_turn(error_msg, timestamp)),
                   error_msg, ops, 0, FALSE)
        output_audio_path == output_path(t)
        ops == IF wfault = "ok" THEN <<<<output_audio_path, "write", net.content>>>>
               ELSE IF wfault = "short" THEN <<<<output_audio_path, "write", "">>>>
               ELSE IF wfault = "missing" THEN <<<<output_audio_path, "remove", "">>>>
               ELSE <<>>
    IN IF net.kind = "timeout" THEN Err("Timeout", MsgTimeout, <<>>)
       ELSE IF net.kind = "connection" THEN Err("ConnectionFailure", MsgConnection, <<>>)
       ELSE IF net.kind = "error" THEN Err("TransportError", MsgRequestError(net.e), <<>>)
       ELSE IF net.status_code = 200
       THEN IF content_is_empty(net.content)
            THEN Err("EmptyResponse", MsgEmptyResponse, <<>>)
            ELSE IF wfault = "raise"
            THEN Err("ResponseWriteFailure", MsgOutputWriteFailure(e), ops)
            ELSE IF output_invalid(fs_apply(fs, ops), output_audio_path)
            THEN Err("ResponseWriteFailure", MsgOutputInvalid, ops)
            ELSE Result("Success", PyStr(output_audio_path),
                        append_turn(history, success_turn(timestamp)),
                        MsgSuccess, ops, 0, TRUE)
       ELSE Err("ServerError",
                MsgServerError(server_error_detail(net.status_code, net.content)), <<>>)

\* ------------------------------------------------------ the inputs
Audios == {"None", "RIFFmic"}
Exceptions == {"boom"}
WavFaults == {"ok", "raise", "missing"}
OpenFaults == {"ok", "raise"}
OutputFaults == {"ok", "raise", "short", "missing"}
SaveFaults == {"none", "open", "dump"}
NoResponse(kind, e) == [kind |-> kind, status_code |-> 0, content |-> "", e |-> e]
Responses ==
    [kind : {"response"}, status_code : {200}, content : {"", "RIFFtts"}, e : {""}]
    \cup [kind : {"response"}, status_code : {500},
          content : {"", JsonMessageBody, "oops"}, e : {""}]
NetOutcomes ==
    {NoResponse("timeout", ""), NoResponse("connection", "")}
    \cup {NoResponse("error", e) : e \in Exceptions} \cup Responses

\* what the file at HISTORY_PATH may hold when the process starts: nothing, a
\* history an earlier run saved, or text that is not JSON
OldError == error_turn(MsgTimeout, "23:59:58")
OldSuccess == success_turn("23:59:59")
InitFiles ==
    {NoFile, FileOf(json_dump(<<OldError, OldSuccess>>)),
     FileOf(<<LBR, LBR, <<"string", user_message>>>>)}

\* -------------------------------------------------------- the state
VARIABLES
    now,              \* time.time(), in whole seconds
    files,            \* the audio artifacts in tempfile.gettempdir()
    histFile,         \* the file at HISTORY_PATH
    history,          \* history_state, the session's gr.State
    pc,               \* "idle", or "posting": voice_chat waits on requests.post
    vc,               \* the locals of the voice_chat call in flight
    calls,            \* voice_chat calls so far
    last,             \* the handler that ran last: its inputs and what it returned
    writer,           \* path -> the call that wrote it last
    returned,         \* <<path, call>> of every output path a call returned
    sinceClear,       \* clear_history ran and no voice_chat appended since
    clearedInFlight   \* the turns a clear_history removed under a waiting voice_chat

vars == <<now, files, histFile, history, pc, vc, calls, last, writer, returned,
          sinceClear, clearedInFlight>>

NoCall == [audio |-> "None", history |-> <<>>, timestamp |-> "", posts |-> 0, call |-> 0]
Event(op, call, audio_in, in_history, r, net, sfault, file_before, loaded) ==
    [op |-> op, call |-> call, audio_in |-> audio_in, in_history |-> in_history,
     outcome |-> r.outcome, sfault |-> sfault,
     audio |-> r.audio, history |-> r.history, status |-> r.status,
     wrote |-> WrittenPaths(r.ops), posts |-> r.posts, saved |-> r.saved,
     net |-> net, file_before |-> file_before, loaded |-> loaded]
NoLoad == [raised |-> FALSE, value |-> <<>>, readable |-> TRUE]
Loaded(file, readable) ==
    [raised |-> load_chat_history(file, readable).raised,
     value |-> load_chat_history(file, readable).value, readable |-> readable]

\* process start: history_state = gr.State(load_chat_history())  (line 428)
Init ==
    /\ now = 0
    /\ files = <<>>
    /\ histFile \in InitFiles
    /\ \E readable \in BOOLEAN :
         /\ ~readable => histFile.exists
         /\ history = load_chat_history(histFile, readable).value
         /\ last = Event("load_chat_history", 0, "None", <<>>,
                         Result("", PyNone, history, "", <<>>, 0, FALSE),
                         NoResponse("", ""), "none", histFile, Loaded(histFile, readable))
    /\ pc = "idle"
    /\ vc = NoCall
    /\ calls = 0
    /\ writer = <<>>
    /\ returned = {}
    /\ sinceClear = FALSE
    /\ clearedInFlight = {}

\* the wall clock moves on
Tick ==
    /\ now < MaxClock
    /\ now' = now + 1
    /\ UNCHANGED <<files, histFile, history, pc, vc, calls, last, writer, returned,
                   sinceClear, clearedInFlight>>

Stamp(w, ops, call) ==
    [p \in DOMAIN w \cup WrittenPaths(ops) |-> IF p \in WrittenPaths(ops) THEN call ELSE w[p]]

\* submit_btn.click: voice_chat(audio_input, history_state) up to the POST
VoiceChatBegin ==
    /\ pc = "idle"
    /\ calls < MaxCalls
    /\ \E audio \in Audios, wfault \in WavFaults, ofault \in OpenFaults, e \in Exceptions :
         LET r == voice_chat_begin(audio, history, now, wfault, ofault, e) IN
         /\ wfault # "ok" => ofault = "ok"
         /\ audio = "None" => wfault = "ok" /\ ofault = "ok"
         /\ calls' = calls + 1
         /\ files' = fs_apply(files, r.ops)
         /\ writer' = Stamp(writer, r.ops, calls')
         /\ IF r.outcome = "Posted"
            THEN /\ pc' = "posting"
                 /\ vc' = [audio |-> audio, history |-> history,
                           timestamp |-> strftime(now), posts |-> r.posts, call |-> calls']
                 /\ last' = Event("voice_chat_begin", calls', audio, history, r,
                                  NoResponse("", ""), "none", histFile, NoLoad)
                 /\ UNCHANGED <<history, sinceClear>>
            ELSE /\ pc' = "idle"
                 /\ vc' = NoCall
                 /\ history' = r.history
                 /\ last' = Event("voice_chat", calls', audio, history, r,
                                  NoResponse("", ""), "none", histFile, NoLoad)
                 /\ sinceClear' = (sinceClear /\ Len(r.history) = Len(history))
         /\ clearedInFlight' = {}
         /\ UNCHANGED <<now, histFile, returned>>

\* the POST ends and voice_chat runs to its return; its outputs go to
\* audio_output, history_state and status_msg
VoiceChatFinish ==
    /\ pc = "posting"
    /\ \E net \in NetOutcomes, wfault \in OutputFaults, sfault \in SaveFaults,
          e \in Exceptions :
         LET r == voice_chat_finish(vc.history, vc.timestamp, files, now, net, wfault, e)
             reached == net.kind = "response" /\ net.status_code = 200 /\ net.content # ""
         IN
         /\ ~reached => wfault = "ok"
         /\ ~r.saved => sfault = "none"
         /\ files' = fs_apply(files, r.ops)
         /\ writer' = Stamp(writer, r.ops, vc.call)
         /\ histFile' = IF r.saved THEN save_chat_history(histFile, r.history, sfault)
                        ELSE histFile
         /\ history' = r.history
         /\ returned' = IF r.audio # PyNone THEN returned \cup {<<r.audio[2], vc.call>>}
                        ELSE returned
         /\ last' = Event("voice_chat", vc.call, vc.audio, vc.history,
                          [r EXCEPT !.posts = vc.posts + r.posts], net, sfault,
                          histFile, NoLoad)
         /\ sinceClear' = (sinceClear /\ Len(r.history) = Len(vc.history))
         /\ pc' = "idle"
         /\ vc' = NoCall
         /\ UNCHANGED <<now, calls, clearedInFlight>>

\* clear_btn.click: clear_history(); its outputs go to history_state and status_msg
ClearHistory ==
    /\ histFile' = remove_history_file(histFile)
    /\ history' = <<>>
    /\ last' = Event("clear_history", 0, "None", <<>>,
                     Result("Cleared", PyNone, <<>>, MsgCleared, <<>>, 0, FALSE),
                     NoResponse("", ""), "none", histFile, NoLoad)
    /\ sinceClear' = TRUE
    /\ clearedInFlight' = IF pc = "posting"
                          THEN Range(history) \cup Range(load_chat_history(histFile, TRUE).value)
                          ELSE {}
    /\ UNCHANGED <<now, files, pc, vc, calls, writer, returned>>

Next == Tick \/ VoiceChatBegin \/ VoiceChatFinish \/ ClearHistory

Spec == Init /\ [][Next]_vars

\* ------------------------------------------------------- the claims
\* a voice_chat call has returned and is the handler that ran last
Returned == last.op = "voice_chat"
Appended == Len(last.history) > Len(last.in_history)
LastTurn == last.history[Len(last.history)]
Reload == load_chat_history(histFile, TRUE)

\* C1: every voice_chat call that ends in an error other than NoInput returns
\* the input history extended by exactly one turn [error_msg, None, timestamp]
\* whose error_msg is the status message returned; NoInput returns the input
\* history unchanged.
C1_EveryErrorRecorded ==
    Returned =>
        /\ last.outcome = "NoInput" => last.history = last.in_history
        /\ last.outcome \notin {"NoInput", "Success"} =>
             /\ Len(last.history) = Len(last.in_history) + 1
             /\ IsPrefix(last.in_history, last.history)
             /\ LastTurn[1] = PyStr(last.status)
             /\ LastTurn[2] = PyNone
             /\ LastTurn[3][1] = "str"

\* C2: after any voice_chat call that returns a history longer than its input
\* history, with no failure of the file write, the JSON file at HISTORY_PATH
\* holds the returned history.
C2_SavedOnEveryAppend ==
    (Returned /\ Appended /\ last.sfault = "none") =>
        /\ histFile.exists
        /\ json_load(histFile.text).ok
        /\ json_load(histFile.text).val = last.history

\* C3: voice_chat returns an output path exactly when the POST answered 200
\* with a non-empty body and the body was written to an output file that is
\* there with non-zero size; in every other outcome the path is None and the
\* turn appended, if any, has a None assistant label.
C3_OutputPathIffSuccess ==
    Returned =>
        LET written == \E p \in last.wrote :
                          /\ p \in {output_path(t) : t \in 0..now}
                          /\ path_exists(files, p)
                          /\ getsize(files, p) > 0
            good == /\ last.posts = 1
                    /\ last.net.kind = "response"
                    /\ last.net.status_code = 200
                    /\ Len(last.net.content) > 0
                    /\ written
        IN /\ (last.audio # PyNone) <=> good
           /\ last.audio # PyNone =>
                /\ last.audio[2] \in last.wrote
                /\ files[last.audio[2]] = last.net.content
           /\ (last.audio = PyNone /\ Appended) => LastTurn[2] = PyNone
C3_Witness ==
    /\ Returned
    /\ last.audio # PyNone
    /\ last.call = 2

\* C4: one voice_chat call issues no POST when audio is None and at most one
\* otherwise, whatever the request's outcome; the no-audio call writes no file
\* and leaves the history unchanged.
C4_AtMostOnePost ==
    /\ vc.posts <= 1
    /\ Returned =>
         /\ last.posts <= 1
         /\ last.audio_in = "None" =>
              /\ last.posts = 0
              /\ last.wrote = {}
              /\ last.history = last.in_history
              /\ history = last.in_history
              /\ last.outcome = "NoInput"
C4_Witness ==
    /\ Returned
    /\ last.audio_in = "None"
    /\ last.in_history # <<>>
    /\ files # <<>>

\* C5: after a successful voice_chat call has appended its turn and saved the
\* history without a write failure, load_chat_history run afresh returns the
\* history passed into the call, in order, followed by the appended turn.
C5_RoundTrip ==
    (Returned /\ last.outcome = "Success" /\ last.sfault = "none") =>
        /\ ~Reload.raised
        /\ Len(Reload.value) = Len(last.in_history) + 1
        /\ Reload.value[Len(Reload.value)] = LastTurn
        /\ LastTurn[1] = PyStr(user_message)
        /\ LastTurn[2] = PyStr(ai_message)
        /\ SubSeq(Reload.value, 1, Len(Reload.value) - 1) = last.in_history
C5_Witness ==
    /\ Returned
    /\ last.outcome = "Success"
    /\ last.sfault = "none"
    /\ \E i \in 1..Len(last.in_history) : last.in_history[i][2] = PyNone

\* C6: once clear_history has completed, whatever the history and the file
\* were, the history is empty, the file at HISTORY_PATH is absent and
\* load_chat_history returns an empty sequence, until a voice_chat call
\* appends a turn.
C6_ClearedUntilAppend ==
    /\ last.op = "clear_history" => last.history = <<>> /\ sinceClear
    /\ sinceClear =>
         /\ history = <<>>
         /\ ~histFile.exists
         /\ \A readable \in BOOLEAN :
              /\ ~load_chat_history(histFile, readable).raised
              /\ load_chat_history(histFile, readable).value = <<>>
C6_Witness ==
    /\ sinceClear
    /\ last.op = "clear_history"
    /\ last.file_before.exists
    /\ json_load(last.file_before.text).ok
    /\ calls > 0

\* C7: each successful voice_chat call leaves exactly its response body at the
\* path it returns, and no later call writes an artifact to a path an earlier
\* successful call returned.
C7_FreshOutputPath ==
    /\ (Returned /\ last.audio # PyNone) =>
         /\ path_exists(files, last.audio[2])
         /\ files[last.audio[2]] = last.net.content
         /\ Len(last.net.content) > 0
    /\ \A rc \in returned : writer[rc[1]] = rc[2]

\* C8: load_chat_history never raises; it returns an empty sequence when the
\* file is absent and when the file is there but unreadable or not JSON, and
\* it leaves the file as it was.
C8_LoadNeverRaises ==
    last.op = "load_chat_history" =>
        /\ ~last.loaded.raised
        /\ history = last.history
        /\ (\/ ~last.file_before.exists
            \/ ~last.loaded.readable
            \/ ~json_load(last.file_before.text).ok) => last.history = <<>>
        /\ (/\ last.file_before.exists
            /\ last.loaded.readable
            /\ json_load(last.file_before.text).ok) =>
               last.history = json_load(last.file_before.text).val
        /\ histFile = last.file_before
C8_Witness ==
    /\ last.op = "load_chat_history"
    /\ last.file_before.exists
    /\ last.loaded.readable
    /\ ~json_load(last.file_before.text).ok
    /\ now > 0

\* C9: every voice_chat return has the input history as a prefix and is at
\* most one turn longer, and the session's history only ever loses a turn to
\* clear_history, which empties it.
C9_AppendOnly ==
    [][/\ (last'.op = "voice_chat" /\ last' # last) =>
            /\ history' = last'.history
            /\ IsPrefix(last'.in_history, history')
            /\ Len(history') <= Len(last'.in_history) + 1
       /\ ~IsPrefix(history, history') =>
            /\ last'.op = "clear_history"
            /\ history' = <<>>]_vars
C9_Witness ==
    /\ Returned
    /\ last.call = 2
    /\ Len(last.in_history) >= 3
    /\ Len(history) = Len(last.in_history) + 1

\* C10: when clear_history completes while a voice_chat call that read the
\* history before it is waiting on the POST, then once both have completed no
\* turn from before the clear is in the session's history or in the file.
C10_ClearNotUndone ==
    pc = "idle" =>
        \A turn \in clearedInFlight :
            /\ turn \notin Range(history)
            /\ turn \notin Range(Reload.value)
====
